---- MODULE Spec2Model ----
(***************************************************************************)
(* A model of src/src/ballistica/ballistica.cc: the bootstrap sequence of  *)
(* BallisticaMain with its top-level exception boundary, the fatal-error   *)
(* protocol, the build-integrity query IsUnmodifiedBlessedBuild and the    *)
(* real-time accumulator GetRealTime called from several threads.          *)
(*                                                                         *)
(* Three specifications share the variables:                               *)
(*   Spec          the run of BallisticaMain on the main thread,           *)
(*                 interleaved with the other threads' message handling;   *)
(*   SpecClock     concurrent GetRealTime calls in a bootstrapped process; *)
(*   SpecClockSeq  GetRealTime called by a single thread.                  *)
(***************************************************************************)
EXTENDS Integers, Sequences, FiniteSets, TLC

\* ------------------------------------------------------------------------
\* Bounds of the model.
\* ------------------------------------------------------------------------

\* Number of threads calling GetRealTime concurrently.
NumCallers == 2

\* Number of GetRealTime calls begun in one behaviour of concurrent callers.
MaxCalls == 3

\* Number of GetRealTime calls begun in one behaviour of a single caller.
MaxSeqCalls == 4

\* Number of GetUniqueSessionIdentifier calls begun in one behaviour.
MaxSessionCalls == 3

\* ------------------------------------------------------------------------
\* Program constants.
\* ------------------------------------------------------------------------

\* The ceiling GetRealTime applies to one call's elapsed ticks.
kMaxPassed == 250

\* ------------------------------------------------------------------------
\* Value sets.
\* ------------------------------------------------------------------------

NULL == "null"

\* Values the raw tick source may return, in any order: equal readings,
\* a regression (100 then 99), an oversized jump (to 5000).
TickValues == {0, 99, 100, 5000}

Callers == 1..NumCallers

\* ThreadIdentifier values used by BallisticaMain (lines 103-115), and the
\* bg-dynamics thread the platform adds in non-headless builds (line 126).
WorkerThreads == {"media", "audio", "game", "network_write"}

ThreadIds == {"main", "bg_dynamics"} \cup WorkerThreads

Modules == {"Game", "NetworkWriteModule", "MediaServer", "GraphicsServer",
            "AudioServer", "BGDynamicsServer"}

\* getenv("BA_CRASH_TEST"): unset, "1", or some other text.
CrashEnvValues == {"unset", "1", "0"}

\* kBlessingHash (line 34) is written by the build script: absent or a hash.
EmbeddedHashes == {NULL, "h1"}

\* Values of calced_blessing_hash once it has been computed.
ComputedHashes == {"h1", "h2"}

\* Values of AppGlobals::return_value.
ReturnValues == {0, 1}

kUnhandledPrefix == "Unhandled exception in BallisticaMain(): "

NoThread == 0

NoResult == -1

\* Values rand() returns at line 224.
RandValues == {1, 2}

\* What g_platform->GetUniqueDeviceIdentifier() returns.
kDeviceId == "dev"

\* What a std::string holds after an assignment that raced with another
\* access to it.
TornString == <<"torn">>

VARIABLES
  \* ---- build and environment, fixed for a run
  crashenv,               \* getenv("BA_CRASH_TEST")
  debug_build,            \* g_buildconfig.debug_build()
  kBlessingHash,          \* the embedded blessing hash, or NULL
  custom_dir,             \* what Platform::using_custom_app_python_dir() returns
  uses_event_loop,        \* what App::UsesEventLoop() returns
  headless,               \* BA_HEADLESS_BUILD
  \* ---- the standalone globals (lines 39-63): NULL or the object
  g_app_globals,
  g_platform,
  g_account,
  g_utils,
  g_main_thread,
  g_app,
  g_module,               \* module -> NULL or the thread it was added to:
                          \*   g_game, g_network_write_module, g_media_server,
                          \*   g_graphics_server, g_audio_server, g_bg_dynamics_server
  scene_inited,           \* Scene::Init() has run
  \* ---- threads
  threads,                \* the Thread objects created so far
  modules,                \* thread -> the set of modules added to it
  aux_done,               \* CreateAuxiliaryModules() has returned
  \* ---- AppGlobals fields
  is_bootstrapped,
  pausable_threads,
  return_value,
  user_ran_commands,
  calced_blessing_hash,   \* "" until computed
  \* ---- cross-thread messages
  msgs,                   \* thread -> its queue of pending messages
  sent,                   \* <<thread, message>> in the order they were pushed
  processed,              \* <<thread, message>> in the order they were handled
  screen_created,         \* the graphics server has created the surface
  game_started,           \* the game thread has received the completion notice
  \* ---- BallisticaMain
  pc,                     \* the statement the main thread executes next
  app_obc,                \* g_app->OnBootstrapComplete() has returned
  platform_obc,           \* g_platform->OnBootstrapComplete() has returned
  loop_runs,              \* number of RunEventLoop calls
  primed,                 \* number of PrimeEventPump calls
  quit_requested,         \* shutdown has been requested
  exc,                    \* NULL, or the statement that threw
  exit_cleanly,           \* the local of line 167
  handled,                \* the local of line 168
  fe_exit_cleanly,        \* the local of line 213 (FatalError)
  reports,                \* the ReportFatalError calls, in order
  handles,                \* the HandleFatalError calls, in order
  outcome,                \* how the run of BallisticaMain ended, or "running"
  returned,               \* the value BallisticaMain returned
  will_exit_calls,        \* WillExitMain notifications the platform received
  \* ---- AppGlobals fields used by GetRealTime
  real_time,              \* g_app_globals->real_time
  last_real_time_ticks,   \* g_app_globals->last_real_time_ticks
  real_time_mutex,        \* holder of g_app_globals->real_time_mutex
  \* ---- each caller's position and locals in GetRealTime
  cpc,                    \* caller -> "idle" | "check" | "lock" | "add" | "store" | "ret"
  t,                      \* caller -> the local t of line 186
  result,                 \* caller -> the value its last call returned
  \* ---- history of the calls
  ncalls,                 \* number of GetRealTime calls begun so far
  readings,               \* raw tick values in the order GetTicks() returned them
  results,                \* the values returned, in the order the calls returned
  max_result,             \* greatest value any call has returned so far
  floor,                  \* caller -> max_result when its call began
  solo,                   \* caller -> no other call overlapped its call
  max_tick,               \* greatest raw tick value GetTicks() has returned so far
  \* ---- GetUniqueSessionIdentifier: its statics and its callers
  session_id,             \* static std::string session_id (line 219)
  have_session_id,        \* static bool have_session_id (line 220)
  spc,                    \* caller -> position in GetUniqueSessionIdentifier
  tval,                   \* caller -> its local tval (line 224)
  scalls,                 \* calls begun so far
  computed,               \* number of times line 226 has run
  returns                 \* the values returned so far

clockVars == <<real_time, last_real_time_ticks, real_time_mutex, cpc, t,
               result, ncalls, readings, results, max_result, floor, solo,
               max_tick>>

buildVars == <<crashenv, debug_build, kBlessingHash, custom_dir,
               uses_event_loop, headless>>

globalVars == <<g_app_globals, g_platform, g_account, g_utils, g_main_thread,
                g_app, scene_inited>>

threadVars == <<g_module, threads, modules, aux_done, pausable_threads>>

flagVars == <<is_bootstrapped, return_value, user_ran_commands,
              calced_blessing_hash, quit_requested>>

msgVars == <<msgs, sent, processed, screen_created, game_started>>

hookVars == <<app_obc, platform_obc, loop_runs, primed>>

fatalVars == <<exc, exit_cleanly, handled, fe_exit_cleanly, reports, handles>>

endVars == <<outcome, returned, will_exit_calls>>

bootVars == <<buildVars, globalVars, threadVars, flagVars, msgVars, hookVars,
              fatalVars, endVars, pc>>

sessionVars == <<session_id, have_session_id, spc, tval, scalls, computed,
                 returns>>

vars == <<bootVars, clockVars, sessionVars>>

g_game == g_module["Game"]

g_network_write_module == g_module["NetworkWriteModule"]

g_media_server == g_module["MediaServer"]

g_graphics_server == g_module["GraphicsServer"]

g_audio_server == g_module["AudioServer"]

g_bg_dynamics_server == g_module["BGDynamicsServer"]

\* ------------------------------------------------------------------------
\* IsUnmodifiedBlessedBuild (lines 302-334)
\* ------------------------------------------------------------------------

\* Variant: a hash not yet computed counts as a mismatch.
IsUnmodifiedBlessedBuildFailClosed ==
  IF debug_build THEN FALSE
  ELSE IF g_app_globals # NULL /\ user_ran_commands THEN FALSE
  ELSE IF g_platform # NULL /\ custom_dir THEN FALSE
  ELSE IF kBlessingHash = NULL THEN FALSE
  ELSE g_app_globals # NULL /\ calced_blessing_hash = kBlessingHash

\* Each test returns false as in the source; the last line is line 332-333,
\* with a null g_app_globals short-circuiting the reads of its fields.
IsUnmodifiedBlessedBuild ==
  IF debug_build THEN FALSE
  ELSE IF g_app_globals # NULL /\ user_ran_commands THEN FALSE
  ELSE IF g_platform # NULL /\ custom_dir THEN FALSE
  ELSE IF kBlessingHash = NULL THEN FALSE
  ELSE ~(/\ g_app_globals # NULL
         /\ calced_blessing_hash # ""
         /\ calced_blessing_hash # kBlessingHash)

\* ------------------------------------------------------------------------
\* FatalError (lines 211-216) and the reporter it calls
\* ------------------------------------------------------------------------

\* FatalError::HandleFatalError(exit_cleanly, in_top_level_handler): what a
\* call can do.  It returns whether the error was handled; called outside
\* the top-level handler it may also end the process itself.
HandleFatalErrorOutcomes(in_top_level_handler) ==
  IF in_top_level_handler THEN {"handled", "unhandled"}
  ELSE {"handled", "unhandled", "terminated"}

\* The process is still executing code.
Alive == outcome = "running" \/ (outcome = "returned" /\ ~uses_event_loop)

\* Line 212: FatalError::ReportFatalError(message, false).
FatalErrorReport ==
  /\ pc = "fatal_report"
  /\ reports' = Append(reports,
                       [prefix |-> "", what |-> "Fatal-Error-Test", top |-> FALSE])
  /\ pc' = "fatal_decide"
  /\ UNCHANGED <<buildVars, globalVars, threadVars, flagVars, msgVars, hookVars,
                 exc, exit_cleanly, handled, fe_exit_cleanly, handles, endVars,
                 clockVars, sessionVars>>

\* Line 213: bool exit_cleanly = !IsUnmodifiedBlessedBuild().
FatalErrorDecide ==
  /\ pc = "fatal_decide"
  /\ fe_exit_cleanly' = ~IsUnmodifiedBlessedBuild
  /\ pc' = "fatal_handle"
  /\ UNCHANGED <<buildVars, globalVars, threadVars, flagVars, msgVars, hookVars,
                 exc, exit_cleanly, handled, reports, handles, endVars,
                 clockVars, sessionVars>>

\* Lines 214-215: handled = HandleFatalError(exit_cleanly, false);
\* assert(handled).  The assert aborts a debug build and is compiled out of
\* a release build; FatalError then returns to line 88.
FatalErrorHandle ==
  /\ pc = "fatal_handle"
  /\ \E o \in HandleFatalErrorOutcomes(FALSE) :
       /\ handles' = Append(handles, [exit_cleanly |-> fe_exit_cleanly,
                                      top |-> FALSE, result |-> o])
       /\ IF o = "terminated"
          THEN /\ outcome' = IF fe_exit_cleanly THEN "fatal_exit" ELSE "fatal_abort"
               /\ pc' = "done"
          ELSE IF o = "unhandled" /\ debug_build
          THEN /\ outcome' = "assert_abort"
               /\ pc' = "done"
          ELSE /\ outcome' = outcome
               /\ pc' = "new_app_globals"
  /\ UNCHANGED <<buildVars, globalVars, threadVars, flagVars, msgVars, hookVars,
                 exc, exit_cleanly, handled, fe_exit_cleanly, reports,
                 returned, will_exit_calls, clockVars, sessionVars>>

\* ------------------------------------------------------------------------
\* BallisticaMain (lines 81-183)
\* ------------------------------------------------------------------------

\* Lines 85-89: the crash test.
CrashTest ==
  /\ pc = "crash_test"
  /\ pc' = IF crashenv = "1" THEN "fatal_report" ELSE "new_app_globals"
  /\ UNCHANGED <<buildVars, globalVars, threadVars, flagVars, msgVars, hookVars,
                 fatalVars, endVars, clockVars, sessionVars>>

\* Line 95: g_app_globals = new AppGlobals(argc, argv).
NewAppGlobals ==
  /\ pc = "new_app_globals"
  /\ g_app_globals' = "AppGlobals"
  /\ pc' = "platform_create"
  /\ UNCHANGED <<buildVars, g_platform, g_account, g_utils, g_main_thread,
                 g_app, scene_inited, threadVars, flagVars, msgVars, hookVars,
                 fatalVars, endVars, clockVars, sessionVars>>

\* Line 96: g_platform = Platform::Create().
PlatformCreate ==
  /\ pc = "platform_create"
  /\ g_platform' = "Platform"
  /\ pc' = "platform_post_init"
  /\ UNCHANGED <<buildVars, g_app_globals, g_account, g_utils, g_main_thread,
                 g_app, scene_inited, threadVars, flagVars, msgVars, hookVars,
                 fatalVars, endVars, clockVars, sessionVars>>

\* Line 97: g_platform->PostInit().
PlatformPostInit ==
  /\ pc = "platform_post_init"
  /\ pc' = "new_account"
  /\ UNCHANGED <<buildVars, globalVars, threadVars, flagVars, msgVars, hookVars,
                 fatalVars, endVars, clockVars, sessionVars>>

\* Line 98: g_account = new Account().
NewAccount ==
  /\ pc = "new_account"
  /\ g_account' = "Account"
  /\ pc' = "new_utils"
  /\ UNCHANGED <<buildVars, g_app_globals, g_platform, g_utils, g_main_thread,
                 g_app, scene_inited, threadVars, flagVars, msgVars, hookVars,
                 fatalVars, endVars, clockVars, sessionVars>>

\* Line 99: g_utils = new Utils().
NewUtils ==
  /\ pc = "new_utils"
  /\ g_utils' = "Utils"
  /\ pc' = "scene_init"
  /\ UNCHANGED <<buildVars, g_app_globals, g_platform, g_account, g_main_thread,
                 g_app, scene_inited, threadVars, flagVars, msgVars, hookVars,
                 fatalVars, endVars, clockVars, sessionVars>>

\* Line 100: Scene::Init().
SceneInit ==
  /\ pc = "scene_init"
  /\ scene_inited' = TRUE
  /\ pc' = "new_main_thread"
  /\ UNCHANGED <<buildVars, g_app_globals, g_platform, g_account, g_utils,
                 g_main_thread, g_app, threadVars, flagVars, msgVars, hookVars,
                 fatalVars, endVars, clockVars, sessionVars>>

\* Line 103: g_main_thread = new Thread(ThreadIdentifier::kMain, ThreadType::kMain).
NewMainThread ==
  /\ pc = "new_main_thread"
  /\ g_main_thread' = "main"
  /\ threads' = threads \cup {"main"}
  /\ pc' = "create_app"
  /\ UNCHANGED <<buildVars, g_app_globals, g_platform, g_account, g_utils,
                 g_app, scene_inited, g_module, modules, aux_done,
                 pausable_threads, flagVars, msgVars, hookVars, fatalVars,
                 endVars, clockVars, sessionVars>>

\* Line 106: g_platform->CreateApp(), which sets g_app.
CreateApp ==
  /\ pc = "create_app"
  /\ g_app' = "App"
  /\ pc' = "new_media"
  /\ UNCHANGED <<buildVars, g_app_globals, g_platform, g_account, g_utils,
                 g_main_thread, scene_inited, threadVars, flagVars, msgVars,
                 hookVars, fatalVars, endVars, clockVars, sessionVars>>

\* Lines 109, 111, 113, 115: auto* x_thread = new Thread(ThreadIdentifier::kX).
NewThread(th, at, next) ==
  /\ pc = at
  /\ threads' = threads \cup {th}
  /\ pc' = next
  /\ UNCHANGED <<buildVars, globalVars, g_module, modules, aux_done,
                 pausable_threads, flagVars, msgVars, hookVars, fatalVars,
                 endVars, clockVars, sessionVars>>

\* Variant: the thread is not registered as pausable.
PushPausableSkip(th, at, next) ==
  /\ pc = at
  /\ pc' = next
  /\ UNCHANGED <<buildVars, globalVars, threadVars, flagVars, msgVars, hookVars,
                 fatalVars, endVars, clockVars, sessionVars>>

\* Lines 110, 112, 114, 116: g_app_globals->pausable_threads.push_back(x_thread).
PushPausable(th, at, next) ==
  /\ pc = at
  /\ pausable_threads' = Append(pausable_threads, th)
  /\ pc' = next
  /\ UNCHANGED <<buildVars, globalVars, g_module, threads, modules, aux_done,
                 flagVars, msgVars, hookVars, fatalVars, endVars, clockVars, sessionVars>>

\* Variant: every module is attached to the game thread.
AddModuleOnGameThread(th, m, at, next) ==
  /\ pc = at
  /\ modules' = [modules EXCEPT !["game"] = @ \cup {m}]
  /\ g_module' = [g_module EXCEPT ![m] = "game"]
  /\ pc' = next
  /\ UNCHANGED <<buildVars, globalVars, threads, aux_done, pausable_threads,
                 flagVars, msgVars, hookVars, fatalVars, endVars, clockVars, sessionVars>>

\* Variant: every module is attached to the main thread.
AddModuleOnMainThread(th, m, at, next) ==
  /\ pc = at
  /\ modules' = [modules EXCEPT !["main"] = @ \cup {m}]
  /\ g_module' = [g_module EXCEPT ![m] = "main"]
  /\ pc' = next
  /\ UNCHANGED <<buildVars, globalVars, threads, aux_done, pausable_threads,
                 flagVars, msgVars, hookVars, fatalVars, endVars, clockVars, sessionVars>>

\* Lines 119-123: x_thread->AddModule<M>(); the module's constructor
\* publishes the module's global pointer.
AddModule(th, m, at, next) ==
  /\ pc = at
  /\ modules' = [modules EXCEPT ![th] = @ \cup {m}]
  /\ g_module' = [g_module EXCEPT ![m] = th]
  /\ pc' = next
  /\ UNCHANGED <<buildVars, globalVars, threads, aux_done, pausable_threads,
                 flagVars, msgVars, hookVars, fatalVars, endVars, clockVars, sessionVars>>

\* Line 127: g_platform->CreateAuxiliaryModules(): bg-dynamics in
\* non-headless builds (line 126).
CreateAuxiliaryModules ==
  /\ pc = "create_aux"
  /\ IF headless
     THEN UNCHANGED <<threads, modules, g_module>>
     ELSE /\ threads' = threads \cup {"bg_dynamics"}
          /\ modules' = [modules EXCEPT !["bg_dynamics"] = @ \cup {"BGDynamicsServer"}]
          /\ g_module' = [g_module EXCEPT !["BGDynamicsServer"] = "bg_dynamics"]
  /\ aux_done' = TRUE
  /\ pc' = "set_bootstrapped"
  /\ UNCHANGED <<buildVars, globalVars, pausable_threads, flagVars, msgVars,
                 hookVars, fatalVars, endVars, clockVars, sessionVars>>

\* Variant: phase 2 begins without the flag being set.
SetBootstrappedForgotten ==
  /\ pc = "set_bootstrapped"
  /\ pc' = "push_apply_config"
  /\ UNCHANGED <<buildVars, globalVars, threadVars, flagVars, msgVars, hookVars,
                 fatalVars, endVars, clockVars, sessionVars>>

\* Line 130: g_app_globals->is_bootstrapped = true.
SetBootstrapped ==
  /\ pc = "set_bootstrapped"
  /\ is_bootstrapped' = TRUE
  /\ pc' = "push_apply_config"
  /\ UNCHANGED <<buildVars, globalVars, threadVars, return_value,
                 user_ran_commands, calced_blessing_hash, quit_requested,
                 msgVars, hookVars, fatalVars, endVars, clockVars, sessionVars>>

\* A message is pushed onto a thread's queue.
Push(q, th, m) == [q EXCEPT ![th] = Append(@, m)]

\* Line 138: g_game->PushApplyConfigCall().
PushApplyConfigCall ==
  /\ pc = "push_apply_config"
  /\ msgs' = Push(msgs, "game", "apply_config")
  /\ sent' = Append(sent, <<"game", "apply_config">>)
  /\ pc' = "app_obc"
  /\ UNCHANGED <<buildVars, globalVars, threadVars, flagVars, processed,
                 screen_created, game_started, hookVars, fatalVars, endVars,
                 clockVars, sessionVars>>

\* Line 142: g_app->OnBootstrapComplete().
AppOnBootstrapComplete ==
  /\ pc = "app_obc"
  /\ app_obc' = TRUE
  /\ pc' = "platform_obc"
  /\ UNCHANGED <<buildVars, globalVars, threadVars, flagVars, msgVars,
                 platform_obc, loop_runs, primed, fatalVars, endVars, clockVars, sessionVars>>

\* Line 143: g_platform->OnBootstrapComplete().
PlatformOnBootstrapComplete ==
  /\ pc = "platform_obc"
  /\ platform_obc' = TRUE
  /\ pc' = "uses_event_loop"
  /\ UNCHANGED <<buildVars, globalVars, threadVars, flagVars, msgVars,
                 app_obc, loop_runs, primed, fatalVars, endVars, clockVars, sessionVars>>

\* Variant: the branch of line 149 always takes the else arm.
UsesEventLoopAlwaysPumps ==
  /\ pc = "uses_event_loop"
  /\ pc' = "prime_event_pump"
  /\ UNCHANGED <<buildVars, globalVars, threadVars, flagVars, msgVars, hookVars,
                 fatalVars, endVars, clockVars, sessionVars>>

\* Line 149: if (g_app->UsesEventLoop()).
UsesEventLoop ==
  /\ pc = "uses_event_loop"
  /\ pc' = IF uses_event_loop THEN "run_event_loop" ELSE "prime_event_pump"
  /\ UNCHANGED <<buildVars, globalVars, threadVars, flagVars, msgVars, hookVars,
                 fatalVars, endVars, clockVars, sessionVars>>

\* Line 152: g_main_thread->RunEventLoop(false) is entered.
RunEventLoop ==
  /\ pc = "run_event_loop"
  /\ loop_runs' = loop_runs + 1
  /\ pc' = "event_loop"
  /\ UNCHANGED <<buildVars, globalVars, threadVars, flagVars, msgVars,
                 app_obc, platform_obc, primed, fatalVars, endVars, clockVars, sessionVars>>

\* Line 152: the event loop ends once the app is quit.
RunEventLoopReturn ==
  /\ pc = "event_loop"
  /\ quit_requested
  /\ pc' = "will_exit"
  /\ UNCHANGED <<buildVars, globalVars, threadVars, flagVars, msgVars, hookVars,
                 fatalVars, endVars, clockVars, sessionVars>>

\* Line 160: g_app->PrimeEventPump() is entered.
PrimeEventPump ==
  /\ pc = "prime_event_pump"
  /\ primed' = primed + 1
  /\ pc' = "prime_pump"
  /\ UNCHANGED <<buildVars, globalVars, threadVars, flagVars, msgVars,
                 app_obc, platform_obc, loop_runs, fatalVars, endVars, clockVars, sessionVars>>

\* Lines 156-160: PrimeEventPump pumps main-thread events until drawing
\* begins, that is until the create-screen event has been processed.
PrimeEventPumpReturn ==
  /\ pc = "prime_pump"
  /\ screen_created
  /\ pc' = "will_exit"
  /\ UNCHANGED <<buildVars, globalVars, threadVars, flagVars, msgVars, hookVars,
                 fatalVars, endVars, clockVars, sessionVars>>

\* The statements of the try block (lines 95-160) that call code which can
\* throw a std::exception.
ThrowingPcs ==
  {"new_app_globals", "platform_create", "platform_post_init", "new_account",
   "new_utils", "scene_init", "new_main_thread", "create_app",
   "new_media", "push_media", "new_audio", "push_audio", "new_game",
   "push_game", "new_network_write", "push_network_write",
   "add_game", "add_network_write", "add_media_server",
   "add_graphics_server", "add_audio_server", "create_aux",
   "push_apply_config", "app_obc", "platform_obc", "uses_event_loop",
   "run_event_loop", "event_loop", "prime_event_pump", "prime_pump"}

\* Line 162: a statement of the try block throws; control passes to the
\* catch clause.
Throw ==
  /\ pc \in ThrowingPcs
  /\ exc' = pc
  /\ pc' = "catch_report"
  /\ UNCHANGED <<buildVars, globalVars, threadVars, flagVars, msgVars, hookVars,
                 exit_cleanly, handled, fe_exit_cleanly, reports, handles,
                 endVars, clockVars, sessionVars>>

\* Variant: the report does not say it comes from the top-level handler.
CatchReportNotTopLevel ==
  /\ pc = "catch_report"
  /\ reports' = Append(reports,
                       [prefix |-> kUnhandledPrefix, what |-> exc, top |-> FALSE])
  /\ pc' = "catch_decide"
  /\ UNCHANGED <<buildVars, globalVars, threadVars, flagVars, msgVars, hookVars,
                 exc, exit_cleanly, handled, fe_exit_cleanly, handles, endVars,
                 clockVars, sessionVars>>

\* Lines 163-166: the message is built and ReportFatalError(error_msg, true)
\* is called.
CatchReport ==
  /\ pc = "catch_report"
  /\ reports' = Append(reports,
                       [prefix |-> kUnhandledPrefix, what |-> exc, top |-> TRUE])
  /\ pc' = "catch_decide"
  /\ UNCHANGED <<buildVars, globalVars, threadVars, flagVars, msgVars, hookVars,
                 exc, exit_cleanly, handled, fe_exit_cleanly, handles, endVars,
                 clockVars, sessionVars>>

\* Variant: the blessed build is the one that exits cleanly.
CatchDecideBlessedExitsCleanly ==
  /\ pc = "catch_decide"
  /\ exit_cleanly' = IsUnmodifiedBlessedBuild
  /\ pc' = "catch_handle"
  /\ UNCHANGED <<buildVars, globalVars, threadVars, flagVars, msgVars, hookVars,
                 exc, handled, fe_exit_cleanly, reports, handles, endVars,
                 clockVars, sessionVars>>

\* Line 167: bool exit_cleanly = !IsUnmodifiedBlessedBuild().
CatchDecide ==
  /\ pc = "catch_decide"
  /\ exit_cleanly' = ~IsUnmodifiedBlessedBuild
  /\ pc' = "catch_handle"
  /\ UNCHANGED <<buildVars, globalVars, threadVars, flagVars, msgVars, hookVars,
                 exc, handled, fe_exit_cleanly, reports, handles, endVars,
                 clockVars, sessionVars>>

\* Line 168: bool handled = FatalError::HandleFatalError(exit_cleanly, true).
CatchHandle ==
  /\ pc = "catch_handle"
  /\ \E o \in HandleFatalErrorOutcomes(TRUE) :
       /\ handled' = (o = "handled")
       /\ handles' = Append(handles, [exit_cleanly |-> exit_cleanly,
                                      top |-> TRUE, result |-> o])
  /\ pc' = "catch_default"
  /\ UNCHANGED <<buildVars, globalVars, threadVars, flagVars, msgVars, hookVars,
                 exc, exit_cleanly, fe_exit_cleanly, reports, endVars, clockVars, sessionVars>>

\* Lines 171-177: if not handled, exit(1) or rethrow; otherwise control
\* leaves the catch clause.
CatchDefault ==
  /\ pc = "catch_default"
  /\ IF ~handled
     THEN /\ outcome' = IF exit_cleanly THEN "exit1" ELSE "rethrown"
          /\ pc' = "done"
     ELSE /\ outcome' = outcome
          /\ pc' = "will_exit"
  /\ UNCHANGED <<buildVars, globalVars, threadVars, flagVars, msgVars, hookVars,
                 fatalVars, returned, will_exit_calls, clockVars, sessionVars>>

\* Line 181: g_platform->WillExitMain(false).  Through a null g_platform the
\* call is undefined: the process crashes, or goes on with no platform
\* having been notified.
WillExitMain ==
  /\ pc = "will_exit"
  /\ IF g_platform # NULL
     THEN /\ will_exit_calls' = will_exit_calls + 1
          /\ pc' = "return"
          /\ outcome' = outcome
     ELSE /\ will_exit_calls' = will_exit_calls
          /\ \/ pc' = "return" /\ outcome' = outcome
             \/ pc' = "done" /\ outcome' = "crashed"
  /\ UNCHANGED <<buildVars, globalVars, threadVars, flagVars, msgVars, hookVars,
                 fatalVars, returned, clockVars, sessionVars>>

\* Variant: the return code is always 0.
ReturnValueZero ==
  /\ pc = "return"
  /\ returned' = 0
  /\ outcome' = "returned"
  /\ pc' = "done"
  /\ UNCHANGED <<buildVars, globalVars, threadVars, flagVars, msgVars, hookVars,
                 fatalVars, will_exit_calls, clockVars, sessionVars>>

\* Line 182: return g_app_globals->return_value.  Through a null
\* g_app_globals the read is undefined: the process crashes, or returns
\* whatever the read produced.
ReturnValue ==
  /\ pc = "return"
  /\ IF g_app_globals # NULL
     THEN /\ returned' = return_value
          /\ outcome' = "returned"
     ELSE \/ /\ returned' \in ReturnValues
             /\ outcome' = "returned"
          \/ /\ returned' = returned
             /\ outcome' = "crashed"
  /\ pc' = "done"
  /\ UNCHANGED <<buildVars, globalVars, threadVars, flagVars, msgVars, hookVars,
                 fatalVars, will_exit_calls, clockVars, sessionVars>>

\* ------------------------------------------------------------------------
\* The other threads, once set in motion (lines 69-79)
\* ------------------------------------------------------------------------

\* The game thread handles its next message: apply-config sends the
\* create-screen message to the graphics server's thread (lines 69-71); the
\* completion notice starts the game (lines 78-79).
GameThreadProcess ==
  /\ Alive
  /\ g_game # NULL
  /\ msgs[g_game] # <<>>
  /\ LET m == Head(msgs[g_game])
         rest == [msgs EXCEPT ![g_game] = Tail(@)]
     IN /\ processed' = Append(processed, <<g_game, m>>)
        /\ IF m = "apply_config"
           THEN /\ msgs' = Push(rest, g_graphics_server, "create_screen")
                /\ sent' = Append(sent, <<g_graphics_server, "create_screen">>)
                /\ game_started' = game_started
           ELSE /\ msgs' = rest
                /\ sent' = sent
                /\ game_started' = TRUE
  /\ UNCHANGED <<buildVars, globalVars, threadVars, flagVars, screen_created,
                 hookVars, fatalVars, endVars, pc, clockVars, sessionVars>>

\* Variant: main-thread events are handled only inside RunEventLoop;
\* PrimeEventPump pumps nothing.
MainThreadProcessOnlyInEventLoop ==
  /\ pc = "event_loop"
  /\ g_graphics_server # NULL
  /\ msgs[g_graphics_server] # <<>>
  /\ LET m == Head(msgs[g_graphics_server])
         rest == [msgs EXCEPT ![g_graphics_server] = Tail(@)]
     IN /\ processed' = Append(processed, <<g_graphics_server, m>>)
        /\ screen_created' = TRUE
        /\ msgs' = Push(rest, g_game, "screen_created")
        /\ sent' = Append(sent, <<g_game, "screen_created">>)
  /\ UNCHANGED <<buildVars, globalVars, threadVars, flagVars, game_started,
                 hookVars, fatalVars, endVars, pc, clockVars, sessionVars>>

\* The main thread handles its next message inside RunEventLoop or
\* PrimeEventPump, or fed by the OS after BallisticaMain returned (lines
\* 154-155): the graphics server creates the screen and sends the
\* completion notice to the game thread (lines 75-77).
MainThreadProcess ==
  /\ \/ pc \in {"event_loop", "prime_pump"}
     \/ outcome = "returned" /\ ~uses_event_loop
  /\ g_graphics_server # NULL
  /\ msgs[g_graphics_server] # <<>>
  /\ LET m == Head(msgs[g_graphics_server])
         rest == [msgs EXCEPT ![g_graphics_server] = Tail(@)]
     IN /\ processed' = Append(processed, <<g_graphics_server, m>>)
        /\ screen_created' = TRUE
        /\ msgs' = Push(rest, g_game, "screen_created")
        /\ sent' = Append(sent, <<g_game, "screen_created">>)
  /\ UNCHANGED <<buildVars, globalVars, threadVars, flagVars, game_started,
                 hookVars, fatalVars, endVars, pc, clockVars, sessionVars>>

\* Shutdown is requested with a return code.
Quit ==
  /\ Alive
  /\ is_bootstrapped
  /\ ~quit_requested
  /\ quit_requested' = TRUE
  /\ return_value' \in ReturnValues
  /\ UNCHANGED <<buildVars, globalVars, threadVars, is_bootstrapped,
                 user_ran_commands, calced_blessing_hash, msgVars, hookVars,
                 fatalVars, endVars, pc, clockVars, sessionVars>>

\* The user invokes developer commands: user_ran_commands is set.
UserRanCommands ==
  /\ Alive
  /\ is_bootstrapped
  /\ ~user_ran_commands
  /\ user_ran_commands' = TRUE
  /\ UNCHANGED <<buildVars, globalVars, threadVars, is_bootstrapped,
                 return_value, calced_blessing_hash, quit_requested, msgVars,
                 hookVars, fatalVars, endVars, pc, clockVars, sessionVars>>

\* The blessing hash is computed, once, and stored in calced_blessing_hash.
CalcBlessingHash ==
  /\ Alive
  /\ is_bootstrapped
  /\ calced_blessing_hash = ""
  /\ calced_blessing_hash' \in ComputedHashes
  /\ UNCHANGED <<buildVars, globalVars, threadVars, is_bootstrapped,
                 return_value, user_ran_commands, quit_requested, msgVars,
                 hookVars, fatalVars, endVars, pc, clockVars, sessionVars>>

\* ------------------------------------------------------------------------
\* The run of BallisticaMain
\* ------------------------------------------------------------------------

\* The state at process start: the globals of lines 39-63 are null and the
\* AppGlobals fields have their initial values.
InitBoot ==
  /\ crashenv \in CrashEnvValues
  /\ debug_build \in BOOLEAN
  /\ kBlessingHash \in EmbeddedHashes
  /\ custom_dir \in BOOLEAN
  /\ uses_event_loop \in BOOLEAN
  /\ headless \in BOOLEAN
  /\ g_app_globals = NULL
  /\ g_platform = NULL
  /\ g_account = NULL
  /\ g_utils = NULL
  /\ g_main_thread = NULL
  /\ g_app = NULL
  /\ g_module = [m \in Modules |-> NULL]
  /\ scene_inited = FALSE
  /\ threads = {}
  /\ modules = [th \in ThreadIds |-> {}]
  /\ aux_done = FALSE
  /\ is_bootstrapped = FALSE
  /\ pausable_threads = <<>>
  /\ return_value = 0
  /\ user_ran_commands = FALSE
  /\ calced_blessing_hash = ""
  /\ msgs = [th \in ThreadIds |-> <<>>]
  /\ sent = <<>>
  /\ processed = <<>>
  /\ screen_created = FALSE
  /\ game_started = FALSE
  /\ pc = "crash_test"
  /\ app_obc = FALSE
  /\ platform_obc = FALSE
  /\ loop_runs = 0
  /\ primed = 0
  /\ quit_requested = FALSE
  /\ exc = NULL
  /\ exit_cleanly = FALSE
  /\ handled = FALSE
  /\ fe_exit_cleanly = FALSE
  /\ reports = <<>>
  /\ handles = <<>>
  /\ outcome = "running"
  /\ returned = NoResult
  /\ will_exit_calls = 0

\* ------------------------------------------------------------------------
\* GetRealTime (lines 185-209)
\* ------------------------------------------------------------------------

Max(a, b) == IF a >= b THEN a ELSE b

\* Variant: the negative delta is not raised to 0.
ClampPassedNoFloor(passed) == IF passed > kMaxPassed THEN kMaxPassed ELSE passed

\* Variant: the delta is not capped at 250.
ClampPassedNoCeiling(passed) == IF passed < 0 THEN 0 ELSE passed

\* Lines 196-204: a negative delta counts as 0, a delta above 250 as 250.
ClampPassed(passed) ==
  IF passed < 0 THEN 0
  ELSE IF passed > kMaxPassed THEN kMaxPassed
  ELSE passed

\* Line 186: millisecs_t t = g_platform->GetTicks().  The raw source may
\* return any value, whatever it returned before.  rec: the behaviour keeps
\* the sequences of readings and results.
GetTicks(th, rec) ==
  /\ UNCHANGED <<bootVars, sessionVars>>
  /\ cpc[th] = "idle"
  /\ ncalls < (IF rec THEN MaxSeqCalls ELSE MaxCalls)
  /\ ncalls' = ncalls + 1
  /\ \E v \in TickValues :
       /\ t' = [t EXCEPT ![th] = v]
       /\ readings' = IF rec THEN Append(readings, v) ELSE readings
       /\ max_tick' = Max(max_tick, v)
  /\ cpc' = [cpc EXCEPT ![th] = "check"]
  /\ floor' = [floor EXCEPT ![th] = max_result]
  /\ solo' = [c \in Callers |->
                IF c = th THEN \A o \in Callers \ {th} : cpc[o] = "idle"
                ELSE IF cpc[c] # "idle" THEN FALSE ELSE solo[c]]
  /\ UNCHANGED <<real_time, last_real_time_ticks, real_time_mutex, result,
                 results, max_result>>

\* Variant: the comparison is not made and every call takes the lock.
CheckTicksAlwaysLocks(th) ==
  /\ UNCHANGED <<bootVars, sessionVars>>
  /\ cpc[th] = "check"
  /\ cpc' = [cpc EXCEPT ![th] = "lock"]
  /\ UNCHANGED <<real_time, last_real_time_ticks, real_time_mutex, t, result,
                 ncalls, readings, results, max_result, floor, solo,
                 max_tick>>

\* Line 189: the unlocked comparison with last_real_time_ticks.
CheckTicks(th) ==
  /\ UNCHANGED <<bootVars, sessionVars>>
  /\ cpc[th] = "check"
  /\ cpc' = [cpc EXCEPT ![th] =
               IF t[th] # last_real_time_ticks THEN "lock" ELSE "ret"]
  /\ UNCHANGED <<real_time, last_real_time_ticks, real_time_mutex, t, result,
                 ncalls, readings, results, max_result, floor, solo,
                 max_tick>>

\* Line 190: std::lock_guard acquires real_time_mutex.
LockMutex(th) ==
  /\ UNCHANGED <<bootVars, sessionVars>>
  /\ cpc[th] = "lock"
  /\ real_time_mutex = NoThread
  /\ real_time_mutex' = th
  /\ cpc' = [cpc EXCEPT ![th] = "add"]
  /\ UNCHANGED <<real_time, last_real_time_ticks, t, result,
                 ncalls, readings, results, max_result, floor, solo,
                 max_tick>>

\* Lines 191-205: passed = t - last_real_time_ticks, clamped, is added.
AddPassed(th) ==
  /\ UNCHANGED <<bootVars, sessionVars>>
  /\ cpc[th] = "add"
  /\ real_time_mutex = th
  /\ real_time' = real_time + ClampPassed(t[th] - last_real_time_ticks)
  /\ cpc' = [cpc EXCEPT ![th] = "store"]
  /\ UNCHANGED <<last_real_time_ticks, real_time_mutex, t, result,
                 ncalls, readings, results, max_result, floor, solo,
                 max_tick>>

\* Variant: a regressed reading does not replace last_real_time_ticks.
StoreLastTicksKeepMax(th) ==
  /\ UNCHANGED <<bootVars, sessionVars>>
  /\ cpc[th] = "store"
  /\ real_time_mutex = th
  /\ last_real_time_ticks' = Max(last_real_time_ticks, t[th])
  /\ real_time_mutex' = NoThread
  /\ cpc' = [cpc EXCEPT ![th] = "ret"]
  /\ UNCHANGED <<real_time, t, result, ncalls, readings, results, max_result,
                 floor, solo, max_tick>>

\* Lines 206-207: last_real_time_ticks = t, then the lock_guard's scope ends.
StoreLastTicks(th) ==
  /\ UNCHANGED <<bootVars, sessionVars>>
  /\ cpc[th] = "store"
  /\ real_time_mutex = th
  /\ last_real_time_ticks' = t[th]
  /\ real_time_mutex' = NoThread
  /\ cpc' = [cpc EXCEPT ![th] = "ret"]
  /\ UNCHANGED <<real_time, t, result, ncalls, readings, results, max_result,
                 floor, solo, max_tick>>

\* Line 208: return g_app_globals->real_time, read without the lock.  The
\* read yields the value some earlier or concurrent store left there.
ReturnRealTime(th, rec) ==
  /\ UNCHANGED <<bootVars, sessionVars>>
  /\ cpc[th] = "ret"
  /\ result' = [result EXCEPT ![th] = real_time]
  /\ results' = IF rec THEN Append(results, real_time) ELSE results
  /\ max_result' = Max(max_result, real_time)
  /\ cpc' = [cpc EXCEPT ![th] = "idle"]
  /\ UNCHANGED <<real_time, last_real_time_ticks, real_time_mutex, t,
                 ncalls, readings, floor, solo, max_tick>>

InitClock ==
  /\ real_time = 0
  /\ last_real_time_ticks = 0
  /\ real_time_mutex = NoThread
  /\ cpc = [c \in Callers |-> "idle"]
  /\ t = [c \in Callers |-> 0]
  /\ result = [c \in Callers |-> NoResult]
  /\ ncalls = 0
  /\ readings = <<>>
  /\ results = <<>>
  /\ max_result = 0
  /\ floor = [c \in Callers |-> 0]
  /\ max_tick = 0
  /\ solo = [c \in Callers |-> TRUE]

\* ------------------------------------------------------------------------
\* GetUniqueSessionIdentifier (lines 218-233), called from any thread
\* ------------------------------------------------------------------------

\* std::to_string at line 226: the decimal digits of tval.
to_string(n) == CASE n = 1 -> "1" [] n = 2 -> "2"

\* std::string operator+ at line 226: the characters of a followed by
\* those of b.
Concat(a, b) == <<a, b>>

\* Line 221: if (!have_session_id), read without any lock.
CheckHaveSessionId(th) ==
  /\ spc[th] = "idle"
  /\ scalls < MaxSessionCalls
  /\ scalls' = scalls + 1
  /\ spc' = [spc EXCEPT ![th] = IF have_session_id THEN "ret" ELSE "rand"]
  /\ UNCHANGED <<session_id, have_session_id, tval, computed, returns>>
  /\ UNCHANGED <<bootVars, clockVars>>

\* Lines 222-224: srand(GetCurrentMilliseconds()); tval = rand().
Rand(th) ==
  /\ spc[th] = "rand"
  /\ \E v \in RandValues : tval' = [tval EXCEPT ![th] = v]
  /\ spc' = [spc EXCEPT ![th] = "assign"]
  /\ UNCHANGED <<session_id, have_session_id, scalls, computed, returns>>
  /\ UNCHANGED <<bootVars, clockVars>>

\* Another caller is inside the function past the test of line 221, where it
\* writes or reads session_id.
Racing(th) == \E o \in Callers \ {th} : spc[o] \in {"assign", "flag", "ret"}

\* Lines 225-226: assert(g_platform); session_id = device id + tval.  The
\* assignment is unsynchronised: when it races with another caller's access
\* the string may be left torn.
AssignSessionId(th) ==
  /\ spc[th] = "assign"
  /\ g_platform # NULL
  /\ session_id' \in {Concat(kDeviceId, to_string(tval[th]))}
                     \cup (IF Racing(th) THEN {TornString} ELSE {})
  /\ computed' = computed + 1
  /\ spc' = [spc EXCEPT ![th] = "flag"]
  /\ UNCHANGED <<have_session_id, tval, scalls, returns>>
  /\ UNCHANGED <<bootVars, clockVars>>

\* Line 227: have_session_id = true.  (Lines 228-230 only log.)
SetHaveSessionId(th) ==
  /\ spc[th] = "flag"
  /\ have_session_id' = TRUE
  /\ spc' = [spc EXCEPT ![th] = "ret"]
  /\ UNCHANGED <<session_id, tval, scalls, computed, returns>>
  /\ UNCHANGED <<bootVars, clockVars>>

\* Line 232: return session_id; the caller reads what the static holds.
ReturnSessionId(th) ==
  /\ spc[th] = "ret"
  /\ returns' = returns \cup {session_id}
  /\ spc' = [spc EXCEPT ![th] = "idle"]
  /\ UNCHANGED <<session_id, have_session_id, tval, scalls, computed>>
  /\ UNCHANGED <<bootVars, clockVars>>

\* The statics as initialised at lines 219-220.
InitSession ==
  /\ session_id = <<>>
  /\ have_session_id = FALSE
  /\ spc = [c \in Callers |-> "idle"]
  /\ tval = [c \in Callers |-> 1]
  /\ scalls = 0
  /\ computed = 0
  /\ returns = {}

\* GetUniqueSessionIdentifier called from every thread of Callers, in any
\* interleaving, in a bootstrapped process.
NextSession ==
  \E th \in Callers :
    \/ CheckHaveSessionId(th)
    \/ Rand(th)
    \/ AssignSessionId(th)
    \/ SetHaveSessionId(th)
    \/ ReturnSessionId(th)

\* Lines 81-183 on the main thread, interleaved with the other threads.
Next ==
  \/ CrashTest
  \/ FatalErrorReport
  \/ FatalErrorDecide
  \/ FatalErrorHandle
  \/ NewAppGlobals
  \/ PlatformCreate
  \/ PlatformPostInit
  \/ NewAccount
  \/ NewUtils
  \/ SceneInit
  \/ NewMainThread
  \/ CreateApp
  \/ NewThread("media", "new_media", "push_media")
  \/ PushPausable("media", "push_media", "new_audio")
  \/ NewThread("audio", "new_audio", "push_audio")
  \/ PushPausable("audio", "push_audio", "new_game")
  \/ NewThread("game", "new_game", "push_game")
  \/ PushPausable("game", "push_game", "new_network_write")
  \/ NewThread("network_write", "new_network_write", "push_network_write")
  \/ PushPausable("network_write", "push_network_write", "add_game")
  \/ AddModule("game", "Game", "add_game", "add_network_write")
  \/ AddModule("network_write", "NetworkWriteModule", "add_network_write",
               "add_media_server")
  \/ AddModule("media", "MediaServer", "add_media_server", "add_graphics_server")
  \/ AddModule("main", "GraphicsServer", "add_graphics_server", "add_audio_server")
  \/ AddModule("audio", "AudioServer", "add_audio_server", "create_aux")
  \/ CreateAuxiliaryModules
  \/ SetBootstrapped
  \/ PushApplyConfigCall
  \/ AppOnBootstrapComplete
  \/ PlatformOnBootstrapComplete
  \/ UsesEventLoop
  \/ RunEventLoop
  \/ RunEventLoopReturn
  \/ PrimeEventPump
  \/ PrimeEventPumpReturn
  \/ Throw
  \/ CatchReport
  \/ CatchDecide
  \/ CatchHandle
  \/ CatchDefault
  \/ WillExitMain
  \/ ReturnValue
  \/ GameThreadProcess
  \/ MainThreadProcess
  \/ Quit
  \/ UserRanCommands
  \/ CalcBlessingHash

Init == InitBoot /\ InitClock /\ InitSession

Spec == Init /\ [][Next]_vars

\* The next statement of BallisticaMain or FatalError when it completes
\* without throwing.
MainStep ==
  \/ CrashTest
  \/ FatalErrorReport
  \/ FatalErrorDecide
  \/ FatalErrorHandle
  \/ NewAppGlobals
  \/ PlatformCreate
  \/ PlatformPostInit
  \/ NewAccount
  \/ NewUtils
  \/ SceneInit
  \/ NewMainThread
  \/ CreateApp
  \/ NewThread("media", "new_media", "push_media")
  \/ PushPausable("media", "push_media", "new_audio")
  \/ NewThread("audio", "new_audio", "push_audio")
  \/ PushPausable("audio", "push_audio", "new_game")
  \/ NewThread("game", "new_game", "push_game")
  \/ PushPausable("game", "push_game", "new_network_write")
  \/ NewThread("network_write", "new_network_write", "push_network_write")
  \/ PushPausable("network_write", "push_network_write", "add_game")
  \/ AddModule("game", "Game", "add_game", "add_network_write")
  \/ AddModule("network_write", "NetworkWriteModule", "add_network_write",
               "add_media_server")
  \/ AddModule("media", "MediaServer", "add_media_server", "add_graphics_server")
  \/ AddModule("main", "GraphicsServer", "add_graphics_server", "add_audio_server")
  \/ AddModule("audio", "AudioServer", "add_audio_server", "create_aux")
  \/ CreateAuxiliaryModules
  \/ SetBootstrapped
  \/ PushApplyConfigCall
  \/ AppOnBootstrapComplete
  \/ PlatformOnBootstrapComplete
  \/ UsesEventLoop
  \/ RunEventLoop
  \/ RunEventLoopReturn
  \/ PrimeEventPump
  \/ PrimeEventPumpReturn
  \/ CatchReport
  \/ CatchDecide
  \/ CatchHandle
  \/ CatchDefault
  \/ WillExitMain
  \/ ReturnValue

\* The run of BallisticaMain under fair scheduling: the thread running
\* BallisticaMain keeps executing its next statement, and the game thread
\* and the main thread's event handling each handle a queued message when
\* one stays queued.  Failures, shutdown requests and the user's actions are
\* not forced to happen.
SpecLive ==
  /\ Init
  /\ [][Next]_vars
  /\ WF_vars(MainStep)
  /\ WF_vars(GameThreadProcess)
  /\ WF_vars(MainThreadProcess)

\* A bootstrapped process sitting in its event loop, the screen created and
\* the game started: the state GetRealTime is called in.
InitSteady ==
  /\ crashenv = "unset"
  /\ debug_build = FALSE
  /\ kBlessingHash = NULL
  /\ custom_dir = FALSE
  /\ uses_event_loop = TRUE
  /\ headless = TRUE
  /\ g_app_globals = "AppGlobals"
  /\ g_platform = "Platform"
  /\ g_account = "Account"
  /\ g_utils = "Utils"
  /\ g_main_thread = "main"
  /\ g_app = "App"
  /\ g_module = [m \in Modules |->
                   CASE m = "Game" -> "game"
                     [] m = "NetworkWriteModule" -> "network_write"
                     [] m = "MediaServer" -> "media"
                     [] m = "GraphicsServer" -> "main"
                     [] m = "AudioServer" -> "audio"
                     [] OTHER -> NULL]
  /\ scene_inited = TRUE
  /\ threads = {"main"} \cup WorkerThreads
  /\ modules = [th \in ThreadIds |->
                  CASE th = "game" -> {"Game"}
                    [] th = "network_write" -> {"NetworkWriteModule"}
                    [] th = "media" -> {"MediaServer"}
                    [] th = "main" -> {"GraphicsServer"}
                    [] th = "audio" -> {"AudioServer"}
                    [] OTHER -> {}]
  /\ aux_done = TRUE
  /\ is_bootstrapped = TRUE
  /\ pausable_threads = <<"media", "audio", "game", "network_write">>
  /\ return_value = 0
  /\ user_ran_commands = FALSE
  /\ calced_blessing_hash = ""
  /\ msgs = [th \in ThreadIds |-> <<>>]
  /\ sent = << <<"game", "apply_config">>, <<"main", "create_screen">>,
               <<"game", "screen_created">> >>
  /\ processed = << <<"game", "apply_config">>, <<"main", "create_screen">>,
                    <<"game", "screen_created">> >>
  /\ screen_created = TRUE
  /\ game_started = TRUE
  /\ pc = "event_loop"
  /\ app_obc = TRUE
  /\ platform_obc = TRUE
  /\ loop_runs = 1
  /\ primed = 0
  /\ quit_requested = FALSE
  /\ exc = NULL
  /\ exit_cleanly = FALSE
  /\ handled = FALSE
  /\ fe_exit_cleanly = FALSE
  /\ reports = <<>>
  /\ handles = <<>>
  /\ outcome = "running"
  /\ returned = NoResult
  /\ will_exit_calls = 0

\* GetRealTime called from every thread of Callers, in any interleaving.
NextClock ==
  \E th \in Callers :
    \/ GetTicks(th, FALSE)
    \/ CheckTicks(th)
    \/ LockMutex(th)
    \/ AddPassed(th)
    \/ StoreLastTicks(th)
    \/ ReturnRealTime(th, FALSE)

InitClockSteady == InitSteady /\ InitClock /\ InitSession

SpecClock == InitClockSteady /\ [][NextClock]_vars

SpecSession == InitClockSteady /\ [][NextSession]_vars

\* Line 186 with a raw tick source that never goes back: the value returned
\* is at least every value returned before.
GetTicksNonDecreasing(th) ==
  /\ GetTicks(th, FALSE)
  /\ t'[th] >= max_tick

\* GetRealTime called from every thread of Callers, in any interleaving,
\* over a non-decreasing raw tick source.
NextClockMono ==
  \E th \in Callers :
    \/ GetTicksNonDecreasing(th)
    \/ CheckTicks(th)
    \/ LockMutex(th)
    \/ AddPassed(th)
    \/ StoreLastTicks(th)
    \/ ReturnRealTime(th, FALSE)

SpecClockMono == InitClockSteady /\ [][NextClockMono]_vars

\* GetRealTime called by one thread only, call after call.
NextClockSeq ==
  \/ GetTicks(1, TRUE)
  \/ CheckTicks(1)
  \/ LockMutex(1)
  \/ AddPassed(1)
  \/ StoreLastTicks(1)
  \/ ReturnRealTime(1, TRUE)

SpecClockSeq == InitClockSteady /\ [][NextClockSeq]_vars

\* ------------------------------------------------------------------------
\* GetRealTime: properties
\* ------------------------------------------------------------------------

\* C1: under every interleaving of GetRealTime calls and every order of raw
\* tick readings, real_time never decreases, and a call that begins after
\* another call returned returns at least what that call returned.
C1_Monotonic ==
  /\ [][real_time' >= real_time]_vars
  /\ [](\A th \in Callers :
          (cpc[th] = "idle" /\ result[th] # NoResult) => result[th] >= floor[th])

\* A call that read the regressed tick 0 after 350 had already been returned,
\* overlapped another call and has returned.
C1_Witness ==
  \E th \in Callers :
    /\ cpc[th] = "idle"
    /\ result[th] # NoResult
    /\ floor[th] = 350
    /\ t[th] = 0
    /\ ~solo[th]

\* C2 as stated: every step advances real_time by 0..250, and two
\* consecutive results of a caller differ by at most 250.
C2_Original ==
  /\ [][real_time' - real_time \in 0..kMaxPassed]_vars
  /\ [][\A th \in Callers :
          (cpc[th] = "ret" /\ cpc'[th] = "idle" /\ result[th] # NoResult)
            => result'[th] - result[th] <= kMaxPassed]_vars

\* C2 amended: every step advances real_time by 0..250, and a call that no
\* other call overlaps returns at least the previous call's result and at
\* most 250 more.
C2_Amended ==
  /\ [][real_time' - real_time \in 0..kMaxPassed]_vars
  /\ [](\A th \in Callers :
          (cpc[th] = "idle" /\ result[th] # NoResult /\ solo[th])
            => result[th] - floor[th] \in 0..kMaxPassed)

\* A call overlapping no other call met an oversized jump after time had
\* already accumulated, and advanced by exactly 250.
C2_Witness ==
  \E th \in Callers :
    /\ cpc[th] = "idle"
    /\ solo[th]
    /\ floor[th] > 0
    /\ result[th] - floor[th] = kMaxPassed
    /\ \E o \in Callers \ {th} : result[o] # NoResult

Clamp(x, lo, hi) == IF x < lo THEN lo ELSE IF x > hi THEN hi ELSE x

RECURSIVE SumClamped(_, _)
SumClamped(r, n) ==
  IF n = 0 THEN 0
  ELSE SumClamped(r, n - 1)
       + Clamp(r[n] - (IF n = 1 THEN 0 ELSE r[n - 1]), 0, 250)

\* C3: for a single caller starting from accumulator 0 and last raw tick 0,
\* the n-th result is the sum over i <= n of clamp(raw[i] - raw[i-1], 0, 250),
\* each delta taken against the immediately preceding reading; raw ticks
\* 0, 100, 99, 5000 give 0, 100, 100, 350.
C3_ClampedSum ==
  /\ Len(results) <= Len(readings)
  /\ \A n \in 1..Len(results) : results[n] = SumClamped(readings, n)
  /\ (readings = <<0, 100, 99, 5000>> /\ Len(results) = 4)
       => results = <<0, 100, 100, 350>>

\* The single caller has read 0, 100, 99, 5000 and all four calls returned.
C3_Witness ==
  /\ readings = <<0, 100, 99, 5000>>
  /\ results = <<0, 100, 100, 350>>

\* ------------------------------------------------------------------------
\* BallisticaMain: properties
\* ------------------------------------------------------------------------

\* C4: no message is pushed to or handled by any thread before
\* is_bootstrapped is true; the first message of the run is the apply-config
\* message to the game thread, pushed in a state where the flag is already
\* set; both OnBootstrapComplete hooks run only after that push.
C4_NoMessageBeforeBootstrapped ==
  /\ [](sent # <<>> => is_bootstrapped /\ sent[1] = <<"game", "apply_config">>)
  /\ [](processed # <<>> => is_bootstrapped)
  /\ [](\A th \in ThreadIds : msgs[th] # <<>> => is_bootstrapped)
  /\ []((app_obc \/ platform_obc) => sent # <<>>)
  /\ [][sent' # sent => is_bootstrapped]_vars

\* Both hooks have run and the game thread has handled the apply-config
\* message.
C4_Witness ==
  /\ app_obc
  /\ platform_obc
  /\ processed # <<>>
  /\ processed[1] = <<"game", "apply_config">>

Range(seq) == {seq[i] : i \in DOMAIN seq}

\* C5: whenever is_bootstrapped is true, provisioning is complete: the
\* globals and the main Thread exist, the four worker threads exist and are
\* exactly the pausable threads, each of the five modules sits on its
\* designated thread with at most one module per thread, and
\* CreateAuxiliaryModules has returned.  No module is on a thread that has
\* not been created, and the steps of phase 1 happen in their order.
C5_ProvisioningComplete ==
  /\ is_bootstrapped =>
       /\ g_app_globals # NULL
       /\ g_platform # NULL
       /\ g_account # NULL
       /\ g_utils # NULL
       /\ g_main_thread = "main"
       /\ g_app # NULL
       /\ scene_inited
       /\ {"main"} \cup WorkerThreads \subseteq threads
       /\ Len(pausable_threads) = Cardinality(WorkerThreads)
       /\ Range(pausable_threads) = WorkerThreads
       /\ modules["game"] = {"Game"}
       /\ modules["network_write"] = {"NetworkWriteModule"}
       /\ modules["media"] = {"MediaServer"}
       /\ modules["main"] = {"GraphicsServer"}
       /\ modules["audio"] = {"AudioServer"}
       /\ g_game = "game"
       /\ g_network_write_module = "network_write"
       /\ g_media_server = "media"
       /\ g_graphics_server = "main"
       /\ g_audio_server = "audio"
       /\ aux_done
  /\ \A th \in ThreadIds : Cardinality(modules[th]) <= 1
  /\ \A th \in ThreadIds : modules[th] # {} => th \in threads
  /\ \A m \in Modules : g_module[m] # NULL => g_module[m] \in threads
  /\ g_platform # NULL => g_app_globals # NULL
  /\ g_account # NULL => g_platform # NULL
  /\ g_utils # NULL => g_account # NULL
  /\ scene_inited => g_utils # NULL
  /\ g_main_thread # NULL => scene_inited
  /\ g_app # NULL => g_main_thread # NULL
  /\ threads \cap WorkerThreads # {} => g_app # NULL
  /\ Range(pausable_threads) \subseteq threads \cap WorkerThreads
  /\ (\E th \in ThreadIds : modules[th] # {}) =>
       Range(pausable_threads) = WorkerThreads
  /\ aux_done => \A th \in {"main"} \cup WorkerThreads : modules[th] # {}
  /\ sent # <<>> => is_bootstrapped

\* Bootstrapped, in a build whose platform added the bg-dynamics thread.
C5_Witness ==
  /\ is_bootstrapped
  /\ "bg_dynamics" \in threads
  /\ pc = "push_apply_config"

TopReports == {i \in DOMAIN reports : reports[i].top}

TopHandles == {i \in DOMAIN handles : handles[i].top}

\* C6: a failure thrown by any statement of the try block, the event loop
\* included, is reported exactly once by ReportFatalError with the
\* unhandled-exception prefix and the flag true, then handled by exactly
\* one HandleFatalError call with the flag true; if that call returns
\* unhandled, the run ends in exit(1) or a rethrow, never by going on.
C6_CaughtOnce ==
  /\ Cardinality(TopReports) <= 1
  /\ Cardinality(TopHandles) <= 1
  /\ exc = NULL => TopReports = {} /\ TopHandles = {}
  /\ (exc # NULL /\ pc # "catch_report") =>
       /\ Cardinality(TopReports) = 1
       /\ \A i \in TopReports :
            /\ reports[i].prefix = kUnhandledPrefix
            /\ reports[i].what = exc
  /\ (exc # NULL /\ pc \notin {"catch_report", "catch_decide", "catch_handle"}) =>
       Cardinality(TopHandles) = 1
  /\ TopHandles # {} => TopReports # {}
  /\ (\E i \in TopHandles : handles[i].result = "unhandled") =>
       \/ pc = "catch_default"
       \/ outcome \in {"exit1", "rethrown"}
  /\ outcome \in {"exit1", "rethrown"} =>
       \E i \in TopHandles : handles[i].result = "unhandled"

\* A failure thrown inside the event loop was left unhandled and the run
\* ended in exit(1).
C6_Witness ==
  /\ exc = "event_loop"
  /\ screen_created
  /\ outcome = "exit1"

C8_Original ==
  outcome \in {"returned", "exit1", "rethrown"} => will_exit_calls = 1

\* C8 amended: when BallisticaMain returns and the platform had been
\* created, the platform has received WillExitMain exactly once, and the
\* value returned is return_value whenever Global State had been created;
\* a run ending in exit(1) or the rethrow sends no WillExitMain.
C8_Amended ==
  /\ [](will_exit_calls <= 1)
  /\ []((outcome = "returned" /\ g_platform # NULL) => will_exit_calls = 1)
  /\ [](outcome \in {"exit1", "rethrown"} => will_exit_calls = 0)
  /\ [](pc = "return" /\ g_platform # NULL => will_exit_calls = 1)
  /\ [][(pc = "return" /\ outcome' = "returned" /\ g_app_globals # NULL)
          => returned' = return_value]_vars

\* BallisticaMain returned 1 after a handled failure, the platform notified.
C8_Witness ==
  /\ outcome = "returned"
  /\ exc # NULL
  /\ will_exit_calls = 1
  /\ returned = 1

\* C9: with BA_CRASH_TEST set to "1" the run never gets past FatalError: no
\* Global State, platform, thread or module is constructed, there is exactly
\* one fatal-error report, and the run ends in a non-zero process exit.
C9_CrashTestEndsRun ==
  crashenv = "1" =>
    /\ pc \in {"crash_test", "fatal_report", "fatal_decide", "fatal_handle", "done"}
    /\ g_app_globals = NULL
    /\ g_platform = NULL
    /\ threads = {}
    /\ \A m \in Modules : g_module[m] = NULL
    /\ Len(reports) <= 1
    /\ pc = "done" =>
         /\ outcome \in {"fatal_exit", "fatal_abort", "assert_abort"}
         /\ Len(reports) = 1

\* The inputs of IsUnmodifiedBlessedBuild as the query sees them: a null
\* g_app_globals or g_platform reads as flag not set, no custom directory,
\* hash not computed.
UserRanCommandsSeen == g_app_globals # NULL /\ user_ran_commands

CustomDirSeen == g_platform # NULL /\ custom_dir

ComputedHashSeen == IF g_app_globals = NULL THEN "" ELSE calced_blessing_hash

\* C10: IsUnmodifiedBlessedBuild is true exactly when the build is not a
\* debug build, no developer commands were run, no custom scripting
\* directory is in use, a hash is embedded, and the computed hash is empty
\* or equal to the embedded one.  With release, no commands, default
\* directory and an embedded hash it is true while no hash is computed and
\* false whenever a differing computed hash is stored.
C10_DecisionTable ==
  /\ IsUnmodifiedBlessedBuild <=>
       /\ ~debug_build
       /\ ~UserRanCommandsSeen
       /\ ~CustomDirSeen
       /\ kBlessingHash # NULL
       /\ ComputedHashSeen \in {"", kBlessingHash}
  /\ (~debug_build /\ ~UserRanCommandsSeen /\ ~CustomDirSeen
        /\ kBlessingHash # NULL) =>
       /\ ComputedHashSeen = "" => IsUnmodifiedBlessedBuild
       /\ ComputedHashSeen \notin {"", kBlessingHash} => ~IsUnmodifiedBlessedBuild

\* Release build, no commands, default directory, embedded hash h1, and the
\* differing hash h2 has been stored.
C10_Witness ==
  /\ ~debug_build
  /\ ~user_ran_commands
  /\ ~custom_dir
  /\ kBlessingHash = "h1"
  /\ g_app_globals # NULL
  /\ calced_blessing_hash = "h2"
  /\ ~IsUnmodifiedBlessedBuild

\* ------------------------------------------------------------------------
\* C11: the classifier is a pure query that is safe before bootstrap
\* ------------------------------------------------------------------------

\* The pointers IsUnmodifiedBlessedBuild would read through if no read were
\* guarded by a null test.
IsUnmodifiedBlessedBuildDerefsUnguarded ==
  IF debug_build THEN {} ELSE {g_app_globals, g_platform}

\* The pointers one evaluation of IsUnmodifiedBlessedBuild reads a field
\* through, in the order of lines 306-333: each read is the right operand of
\* "g_x &&" (lines 314, 321, 332), so it happens only when g_x is not null,
\* and an early return skips the reads after it.
IsUnmodifiedBlessedBuildDerefs ==
  IF debug_build THEN {}
  ELSE (IF g_app_globals # NULL THEN {g_app_globals} ELSE {})
       \cup (IF g_app_globals # NULL /\ user_ran_commands THEN {}
             ELSE IF g_platform # NULL THEN {g_platform} ELSE {})

\* The steps that evaluate the classifier: line 213 and line 167.
ClassifierCalled ==
  \/ pc = "fatal_decide" /\ pc' = "fatal_handle"
  \/ pc = "catch_decide" /\ pc' = "catch_handle"

\* C11: in every state the query reads no field through a null pointer and
\* yields a boolean, and a step that evaluates it changes no global, no
\* thread, no module, no flag and no clock field: only the caller's local
\* and the caller's position change.
C11_PureQuery ==
  /\ [](NULL \notin IsUnmodifiedBlessedBuildDerefs)
  /\ [](IsUnmodifiedBlessedBuild \in BOOLEAN)
  /\ [][ClassifierCalled =>
          UNCHANGED <<buildVars, globalVars, threadVars, flagVars, msgVars,
                      hookVars, reports, handles, endVars, clockVars, sessionVars>>]_vars

\* The query has been evaluated on the crash-test path of a release build
\* with an embedded hash while Global State and the platform are still null.
C11_Witness ==
  /\ pc = "fatal_handle"
  /\ g_app_globals = NULL
  /\ g_platform = NULL
  /\ ~debug_build
  /\ kBlessingHash # NULL
  /\ fe_exit_cleanly = FALSE

\* ------------------------------------------------------------------------
\* Thread-affinity predicates (lines 235-267); th is the calling thread
\* ------------------------------------------------------------------------

\* g_app_globals->main_thread_id: the identity of the thread that constructed
\* Global State at line 95, which is the thread line 103 wraps as main.
main_thread_id == IF g_app_globals = NULL THEN NULL ELSE "main"

\* module->thread()->IsCurrent() for the module behind pointer p: p holds
\* the thread the module was attached to.
IsCurrent(p, th) == p = th

\* Lines 235-237.
InGameThread(th) == g_game # NULL /\ IsCurrent(g_game, th)

\* Lines 239-242.
InMainThread(th) == g_app_globals # NULL /\ th = main_thread_id

\* Lines 244-246.
InGraphicsThread(th) == g_graphics_server # NULL /\ IsCurrent(g_graphics_server, th)

\* Lines 248-250.
InAudioThread(th) == g_audio_server # NULL /\ IsCurrent(g_audio_server, th)

\* Lines 252-258: compiled to "return false" in a headless build.
InBGDynamicsThread(th) ==
  IF headless THEN FALSE
  ELSE g_bg_dynamics_server # NULL /\ IsCurrent(g_bg_dynamics_server, th)

\* Lines 260-262.
InMediaThread(th) == g_media_server # NULL /\ IsCurrent(g_media_server, th)

\* Lines 264-267.
InNetworkWriteThread(th) ==
  g_network_write_module # NULL /\ IsCurrent(g_network_write_module, th)

\* ------------------------------------------------------------------------
\* C12: each predicate is true only on its designated thread
\* ------------------------------------------------------------------------

\* C12: in every reachable state and for every calling thread, a predicate
\* that returns true is being called from its designated thread (the graphics
\* predicate's thread is the main thread); while the pointer it tests is null
\* it returns false; and InBGDynamicsThread is false in a headless build.
C12_ThreadAffinity ==
  \A th \in ThreadIds :
    /\ InGameThread(th) => th = "game"
    /\ InMainThread(th) => th = "main"
    /\ InGraphicsThread(th) => th = "main"
    /\ InAudioThread(th) => th = "audio"
    /\ InMediaThread(th) => th = "media"
    /\ InNetworkWriteThread(th) => th = "network_write"
    /\ InBGDynamicsThread(th) => th = "bg_dynamics"
    /\ g_game = NULL => ~InGameThread(th)
    /\ g_app_globals = NULL => ~InMainThread(th)
    /\ g_graphics_server = NULL => ~InGraphicsThread(th)
    /\ g_audio_server = NULL => ~InAudioThread(th)
    /\ g_media_server = NULL => ~InMediaThread(th)
    /\ g_network_write_module = NULL => ~InNetworkWriteThread(th)
    /\ g_bg_dynamics_server = NULL => ~InBGDynamicsThread(th)
    /\ headless => ~InBGDynamicsThread(th)

\* Bootstrap has completed on a build with the dynamics thread, and every
\* predicate answers true on its own thread.
C12_Witness ==
  /\ is_bootstrapped
  /\ ~headless
  /\ InGameThread("game")
  /\ InMainThread("main")
  /\ InGraphicsThread("main")
  /\ InAudioThread("audio")
  /\ InMediaThread("media")
  /\ InNetworkWriteThread("network_write")
  /\ InBGDynamicsThread("bg_dynamics")

\* ------------------------------------------------------------------------
\* C13: one reporting protocol at both call sites
\* ------------------------------------------------------------------------

ExplicitReports == {i \in DOMAIN reports : ~reports[i].top}

ExplicitHandles == {i \in DOMAIN handles : ~handles[i].top}

\* Control has left the FatalError call of line 88 by its return.
FatalErrorReturned ==
  /\ crashenv = "1"
  /\ pc \notin {"crash_test", "fatal_report", "fatal_decide", "fatal_handle"}
  /\ outcome \notin {"fatal_exit", "fatal_abort", "assert_abort"}

\* Control has left the catch clause of lines 162-178.
CatchLeft ==
  /\ exc # NULL
  /\ pc \notin {"catch_report", "catch_decide", "catch_handle"}

\* The call counts and the order of the two steps at both call sites.
C13_ReportThenHandle ==
  /\ Cardinality(ExplicitReports) <= 1
  /\ Cardinality(ExplicitHandles) <= Cardinality(ExplicitReports)
  /\ Cardinality(TopReports) <= 1
  /\ Cardinality(TopHandles) <= Cardinality(TopReports)
  /\ \A i \in ExplicitReports : reports[i].what = "Fatal-Error-Test"
  /\ FatalErrorReturned =>
       Cardinality(ExplicitReports) = 1 /\ Cardinality(ExplicitHandles) = 1
  /\ CatchLeft => Cardinality(TopReports) = 1 /\ Cardinality(TopHandles) = 1

\* Both call sites compute exit_cleanly by the rule of lines 167 and 213 and
\* pass it to HandleFatalError.
C13_SameRule ==
  /\ [][(pc = "fatal_decide" /\ pc' = "fatal_handle")
          => fe_exit_cleanly' = ~IsUnmodifiedBlessedBuild]_vars
  /\ [][(pc = "catch_decide" /\ pc' = "catch_handle")
          => exit_cleanly' = ~IsUnmodifiedBlessedBuild]_vars
  /\ [][(pc = "fatal_handle" /\ pc' # pc)
          => handles'[Len(handles')].exit_cleanly = fe_exit_cleanly]_vars
  /\ [][(pc = "catch_handle" /\ pc' # pc)
          => handles'[Len(handles')].exit_cleanly = exit_cleanly]_vars

\* An explicit FatalError that has returned was handled.
C13_HandledOnReturn ==
  FatalErrorReturned => \A i \in ExplicitHandles : handles[i].result = "handled"

\* C13: FatalError(message) makes exactly one ReportFatalError(message,
\* false) call and then exactly one HandleFatalError(exit_cleanly, false)
\* call, the top-level boundary makes the same two calls with the flag true,
\* both compute exit_cleanly from IsUnmodifiedBlessedBuild by the same rule,
\* the report comes before the handle, and an explicit FatalError has been
\* handled whenever control returns from it.
C13_OneProtocol ==
  /\ []C13_ReportThenHandle
  /\ C13_SameRule
  /\ []C13_HandledOnReturn

\* ------------------------------------------------------------------------
\* C14: exactly one steady-state branch, after both hooks
\* ------------------------------------------------------------------------

\* The try block was left by its end (line 161), not by a thrown failure.
TryBlockCompleted ==
  /\ exc = NULL
  /\ pc \in {"will_exit", "return", "done"}
  /\ outcome \in {"running", "returned"}

\* C14: RunEventLoop and PrimeEventPump are never both called and neither is
\* called twice; with UsesEventLoop() true PrimeEventPump is never called,
\* and the try block is left without a failure only after one RunEventLoop
\* call that ended on a requested shutdown; with UsesEventLoop() false
\* RunEventLoop is never called and the try block is left without a failure
\* after exactly one PrimeEventPump call; neither call is made before both
\* OnBootstrapComplete hooks have returned.
C14_OneSteadyBranch ==
  /\ loop_runs + primed <= 1
  /\ uses_event_loop => primed = 0
  /\ ~uses_event_loop => loop_runs = 0
  /\ loop_runs + primed >= 1 => app_obc /\ platform_obc
  /\ pc \in {"run_event_loop", "prime_event_pump"} => app_obc /\ platform_obc
  /\ pc = "event_loop" => loop_runs = 1
  /\ pc = "prime_pump" => primed = 1
  /\ TryBlockCompleted => loop_runs + primed = 1
  /\ (TryBlockCompleted /\ uses_event_loop) => loop_runs = 1 /\ quit_requested
  /\ (TryBlockCompleted /\ ~uses_event_loop) => primed = 1

\* BallisticaMain has returned from the event-loop branch after a shutdown
\* request.
C14_Witness ==
  /\ outcome = "returned"
  /\ exc = NULL
  /\ uses_event_loop
  /\ loop_runs = 1
  /\ primed = 0
  /\ quit_requested
  /\ app_obc /\ platform_obc

\* ------------------------------------------------------------------------
\* C15: the fast path of GetRealTime and the locked writes
\* ------------------------------------------------------------------------

\* C15: a call whose reading equals last_real_time_ticks at line 189 goes
\* straight to the return of line 208 without taking the lock or writing
\* either field, a call whose reading differs goes on to take the lock, the
\* lock is taken only at line 190, real_time and last_real_time_ticks change
\* only in a step of the caller that holds real_time_mutex, the caller that
\* releases the lock has just stored its own reading into
\* last_real_time_ticks, and the value returned is real_time.
C15_FastPath ==
  /\ [][\A th \in Callers :
          (cpc[th] = "check" /\ cpc'[th] # "check") =>
            /\ UNCHANGED <<real_time, last_real_time_ticks, real_time_mutex>>
            /\ cpc'[th] = IF t[th] = last_real_time_ticks THEN "ret" ELSE "lock"]_vars
  /\ [][\A th \in Callers :
          (real_time_mutex # th /\ real_time_mutex' = th) => cpc[th] = "lock"]_vars
  /\ [][(real_time' # real_time \/ last_real_time_ticks' # last_real_time_ticks) =>
          /\ real_time_mutex \in Callers
          /\ cpc[real_time_mutex] \in {"add", "store"}
          /\ cpc'[real_time_mutex] # cpc[real_time_mutex]]_vars
  /\ [][\A th \in Callers :
          (real_time_mutex = th /\ real_time_mutex' # th) =>
            /\ last_real_time_ticks' = t[th]
            /\ real_time_mutex' = NoThread]_vars
  /\ [][\A th \in Callers :
          (cpc[th] = "ret" /\ cpc'[th] = "idle") =>
            /\ result'[th] = real_time
            /\ UNCHANGED <<real_time, last_real_time_ticks, real_time_mutex>>]_vars

\* A caller on its own read 100 twice: its first call stored 100 and
\* returned 100, and its second call is at the return of line 208 with the
\* lock free and both fields as the first call left them.
C15_Witness ==
  /\ ncalls = 2
  /\ \A o \in Callers \ {1} : cpc[o] = "idle" /\ result[o] = NoResult
  /\ cpc[1] = "ret"
  /\ result[1] = 100
  /\ t[1] = 100
  /\ last_real_time_ticks = 100
  /\ real_time = 100
  /\ real_time_mutex = NoThread

\* ------------------------------------------------------------------------
\* C16: the create-screen message is eventually processed
\* ------------------------------------------------------------------------

ApplyConfigPushed == <<"game", "apply_config">> \in Range(sent)

CreateScreenProcessed == <<"main", "create_screen">> \in Range(processed)

NoticeSent == <<"game", "screen_created">> \in Range(sent)

\* The run was cut short: a failure was thrown in the try block, or the
\* event loop was told to shut down.
RunCutShort == exc # NULL \/ (uses_event_loop /\ quit_requested)

\* C16: under fair scheduling, once apply-config has been pushed to the game
\* thread, the create-screen message is eventually processed by the main
\* thread on either steady-state branch, unless a thrown failure or a
\* shutdown request ends the run first; and the completion notice is sent to
\* the game thread, and the game started, only once the screen exists.
C16_ScreenEventuallyCreated ==
  /\ ApplyConfigPushed ~> (CreateScreenProcessed \/ RunCutShort)
  /\ [](NoticeSent => screen_created /\ CreateScreenProcessed)
  /\ [](game_started => screen_created)

\* On the branch without an event loop the create-screen message has been
\* processed while PrimeEventPump is pumping, and the game has started.
C16_Witness ==
  /\ ~uses_event_loop
  /\ exc = NULL
  /\ pc = "prime_pump"
  /\ CreateScreenProcessed
  /\ screen_created
  /\ game_started

\* ------------------------------------------------------------------------
\* C17: GetRealTime against a non-decreasing raw clock
\* ------------------------------------------------------------------------

\* C17: with a raw tick source that never goes back, in every interleaving
\* the accumulated real_time is at most the largest raw tick value read so
\* far minus the initial last_real_time_ticks, which is 0: no interval is
\* counted twice.
C17_NeverAheadOfRawClock == real_time <= max_tick

\* ------------------------------------------------------------------------
\* C18: the globals read at the end of BallisticaMain
\* ------------------------------------------------------------------------

\* C18: whenever control is at line 181, g_platform->WillExitMain(false),
\* g_platform is not null, and whenever control is at line 182, the read of
\* g_app_globals->return_value, g_app_globals is not null; in particular
\* after a failure thrown before they were assigned and reported as handled,
\* and after the crash-test FatalError returned.
C18_NoNullDereference ==
  /\ pc = "will_exit" => g_platform # NULL
  /\ pc = "return" => g_app_globals # NULL

\* ------------------------------------------------------------------------
\* C19: the graphics thread is the main thread
\* ------------------------------------------------------------------------

\* C19: once is_bootstrapped is set, InGraphicsThread() and InMainThread()
\* agree on every thread, both true on the main thread and both false on
\* every other thread; while g_graphics_server is null InGraphicsThread() is
\* false on every thread; and InMainThread() is true on the main thread as
\* soon as Global State exists.
C19_GraphicsIsMain ==
  /\ is_bootstrapped =>
       \A th \in ThreadIds :
         /\ InGraphicsThread(th) = InMainThread(th)
         /\ InMainThread(th) = (th = "main")
  /\ g_graphics_server = NULL => \A th \in ThreadIds : ~InGraphicsThread(th)
  /\ g_app_globals # NULL => InMainThread("main")

\* Bootstrap has completed and the main thread sits in its event loop: both
\* predicates are true there and false on the game thread; the same run
\* passed through states with Global State but no graphics server.
C19_Witness ==
  /\ is_bootstrapped
  /\ pc = "event_loop"
  /\ InGraphicsThread("main") /\ InMainThread("main")
  /\ ~InGraphicsThread("game") /\ ~InMainThread("game")

\* ------------------------------------------------------------------------
\* C20: the session identifier is initialised once
\* ------------------------------------------------------------------------

\* C20: in every interleaving of calls from any threads, line 226 runs at
\* most once in the process and all calls return one and the same value.
C20_InitialiseOnce ==
  /\ computed <= 1
  /\ Cardinality(returns) <= 1

====
